---- MODULE Spec2Model ----
(***************************************************************************)
(* State-machine model of the Webex messaging MCP server's authentication  *)
(* core: the keychain glue (src/unnamed/part_000), the token manager       *)
(* (src/lib/keychain/token-manager.js) and the auth facade                 *)
(* (src/lib/webex-config.js).                                              *)
(*                                                                         *)
(* Every `await` of the source is a step boundary: an async function runs  *)
(* atomically from one await to the next, and other tasks, timer callbacks *)
(* and the clock may move in between.  A keychain command (one child       *)
(* process) takes effect in the step in which its await resumes.           *)
(***************************************************************************)
EXTENDS Integers, Sequences, FiniteSets, TLC

VARIABLES
    now,                \* wall clock, milliseconds (new Date())
    platform,           \* process.platform
    keychain,           \* the macOS keychain entries of KEYCHAIN_SERVICE
    issued,             \* the fetcher's ledger: issued[k] is the expiry of token k
    _cachedToken,       \* token-manager.js:14
    _tokenExpiresAt,    \* token-manager.js:15
    _refreshTimeout,    \* token-manager.js:13 (a handle; may name a dead timer)
    _onTokenRefreshed,  \* token-manager.js:16
    timers,             \* the event loop's active timers: handle -> record
    tasks,              \* the async invocations in flight
    returned,           \* what the step just taken returned to its caller
    env,                \* process.env, read by the auth facade
    initCalled,         \* startup has called initializeAuth()
    config_cachedToken, \* webex-config.js:19 (_cachedToken of the facade)
    _authInitialized,   \* webex-config.js:20
    _authMethod,        \* webex-config.js:21
    _keychainTokenManager, \* webex-config.js:24 (the module is loaded)
    oauthCached,        \* the OAuth module's cached token (oauth/index.js)
    room,               \* the messages of the room as the API holds them, newest first
    args,               \* the arguments of the list_messages call in progress
    lpc,                \* where executeFunction is: "idle", "single", "batch", "done"
    collectedMessages,  \* list-messages.js:79
    cursor,             \* list-messages.js:80
    iterations,         \* list-messages.js:83
    fetches,            \* the API's ledger: list requests received in this call
    served,             \* the API's ledger: the items it returned in this call, in order
    result              \* what executeFunction returned

mgrVars == <<_cachedToken, _tokenExpiresAt, _refreshTimeout, _onTokenRefreshed>>
facadeVars == <<config_cachedToken, _authInitialized, _authMethod>>
vars == <<now, platform, keychain, issued, _cachedToken, _tokenExpiresAt,
          _refreshTimeout, _onTokenRefreshed, timers, tasks, returned,
          env, initCalled, config_cachedToken, _authInitialized, _authMethod,
          _keychainTokenManager, oauthCached,
          room, args, lpc, collectedMessages, cursor, iterations, fetches, served,
          result>>
listVars == <<room, args, lpc, collectedMessages, cursor, iterations, fetches, served,
              result>>

----------------------------------------------------------------------------
(* Bounds of the model *)

MaxTasks == 2
MaxTokens == 2
MaxNow == 7200000
\* the list tool's page size and iteration cap, scaled down from the
\* program's 100 and 20 (list-messages.js:81-82) so that small rooms
\* paginate and reach the cap
batchSize == 2
maxIterations == 3
MaxRoom == 7
MaxMax == 3

(* Program constants *)

NULL == 0
REFRESH_BEFORE_EXPIRY_MINUTES == 30
RefreshWindowMs == REFRESH_BEFORE_EXPIRY_MINUTES * 60 * 1000
ImmediateDelayMs == 1000
RetryDelayMs == 5 * 60 * 1000
KEYCHAIN_ACCOUNT == "personal-access-token"
KEYCHAIN_EXPIRY_ACCOUNT == "personal-access-token-expiry"

(* Inputs: the clock at process start; the lifetime of a token the browser *)
(* flow has just issued; the expiry of a record a previous run of the      *)
(* server may have left in the keychain: expired, inside the refresh       *)
(* window, or outside it                                                   *)

StartMs == 60 * 60 * 1000
Lifetimes == {60 * 60 * 1000}
InitialExpiries == {StartMs, StartMs + 10 * 60 * 1000, StartMs + 60 * 60 * 1000}
Platforms == {"darwin", "linux"}

----------------------------------------------------------------------------
(* Date <-> ISO string, as storeToken writes and loadToken reads it *)

toISOString(d) == [iso |-> d]
DateParse(s) == s.iso

(* Keychain commands *)

RemoveEntry(kc, account) == [a \in DOMAIN kc \ {account} |-> kc[a]]
PutEntry(kc, account, value) ==
    [a \in DOMAIN kc \cup {account} |-> IF a = account THEN value ELSE kc[a]]

\* deleteFromKeychain: removes the entry; "not found" is swallowed
deleteFromKeychain(kc, account) == RemoveEntry(kc, account)
\* addToKeychain -U: adds or updates
addToKeychain(kc, account, value) == PutEntry(kc, account, value)

StoredValid ==
    /\ KEYCHAIN_ACCOUNT \in DOMAIN keychain
    /\ KEYCHAIN_EXPIRY_ACCOUNT \in DOMAIN keychain
    /\ DateParse(keychain[KEYCHAIN_EXPIRY_ACCOUNT]) > now

----------------------------------------------------------------------------
(* Tasks *)

\* what loadToken() returns for keychain kc when nothing interleaves
\* (part_000:56-64): the record, or null unless both entries are there
NoRecord == [token |-> NULL, expiresAt |-> NULL]
LoadedRecord(kc) ==
    IF {KEYCHAIN_ACCOUNT, KEYCHAIN_EXPIRY_ACCOUNT} \subseteq DOMAIN kc
    THEN [token |-> kc[KEYCHAIN_ACCOUNT],
          expiresAt |-> DateParse(kc[KEYCHAIN_EXPIRY_ACCOUNT])]
    ELSE NoRecord

\* `stored` remembers the persisted record as it was when the invocation
\* entered forceRefresh()
Slots == 1..MaxTasks
Idle == [op |-> "none", origin |-> "none", pc |-> "idle", token |-> NULL,
         expiresAt |-> NULL, fetches |-> 0, stale |-> {}, stored |-> NoRecord]
NoReturn == [op |-> "none", origin |-> "none", outcome |-> "none", token |-> NULL,
             err |-> "none", fetches |-> 0, stale |-> {}]

FreeSlots == {i \in Slots : tasks[i].pc = "idle"}
IsFree(i) == i \in FreeSlots /\ \A j \in FreeSlots : i <= j

TimerOrigins == {"immediate", "scheduled", "retry"}

----------------------------------------------------------------------------
(* Timers of the event loop *)

\* clearTimeout(h): cancels the timer h names, if it is still active
clearTimeout(T, h) == [id \in DOMAIN T \ {h} |-> T[id]]

\* a handle setTimeout has not handed out among the live ones
NewTimerId(T, h) ==
    CHOOSE n \in 1..(Cardinality(DOMAIN T) + 2) :
        /\ n \notin DOMAIN T \cup {h}
        /\ \A m \in 1..(n - 1) : m \in DOMAIN T \cup {h}

setTimeout(T, id, kind, delay) ==
    [x \in DOMAIN T \cup {id} |->
        IF x = id THEN [kind |-> kind, due |-> now + delay, delay |-> delay]
        ELSE T[x]]

\* token-manager.js:97-99
MsUntilRefresh(expiresAt) == (expiresAt - RefreshWindowMs) - now

\* (a variant that hands msUntilRefresh to setTimeout as it is)
RefreshDelayUnclamped(ms) == ms

\* token-manager.js:101-132: which callback is installed, and with which delay
RefreshKind(ms) == IF ms <= 0 THEN "immediate" ELSE "scheduled"
RefreshDelay(ms) == IF ms <= 0 THEN ImmediateDelayMs ELSE ms

\* scheduleRefresh(expiresAt): the timers and the handle it leaves
scheduleRefresh(expiresAt) ==
    LET T0 == IF _refreshTimeout # NULL
              THEN clearTimeout(timers, _refreshTimeout) ELSE timers
        ms == MsUntilRefresh(expiresAt)
        id == NewTimerId(timers, _refreshTimeout)
    IN  [timers |-> setTimeout(T0, id, RefreshKind(ms), RefreshDelay(ms)),
         handle |-> id]

\* the catch blocks of the three timer callbacks: only the callback installed
\* for refreshAt schedules a retry, and it does so without clearTimeout
RetriesAfterFailure(kind) == kind = "scheduled"

TimerCatch(kind, T, h) ==
    IF RetriesAfterFailure(kind)
    THEN LET id == NewTimerId(T, h)
         IN  [timers |-> setTimeout(T, id, "retry", RetryDelayMs), handle |-> id]
    ELSE [timers |-> T, handle |-> h]

----------------------------------------------------------------------------
(* How a task ends: what its caller sees and does next *)

\* the value (or rejection) the caller of task t receives
ReturnOf(t, outcome, tok, err) ==
    CASE t.origin \in TimerOrigins ->
            \* the callback's try/catch swallows the rejection and logs its message
            [NoReturn EXCEPT !.op = "timerCallback", !.origin = t.origin,
                             !.outcome = "void", !.err = err, !.fetches = t.fetches]
      [] t.origin = "initializeAuth" ->
            [NoReturn EXCEPT !.op = "initializeAuth", !.origin = "facade",
                             !.outcome = IF outcome = "error" THEN "error" ELSE "void",
                             !.err = err]
      [] t.origin = "refreshAutoToken" ->
            [NoReturn EXCEPT !.op = "refreshAutoToken", !.origin = "facade",
                             !.outcome = IF outcome = "error" THEN "failure" ELSE "success",
                             !.err = err]
      [] OTHER ->
            [op |-> t.op, origin |-> t.origin, outcome |-> outcome, token |-> tok,
             err |-> err, fetches |-> t.fetches, stale |-> t.stale]

\* (a variant that marks the facade initialized whatever the outcome)
FacadeAfterInitEarly(t, outcome, tok, cbTok) ==
    IF t.origin \in {"initializeAuth", "refreshAutoToken"}
    THEN [token |-> tok, init |-> TRUE, method |-> "auto-refresh"]
    ELSE [token |-> config_cachedToken, init |-> _authInitialized, method |-> _authMethod]

\* the facade's state after task t ended; cbTok is the token forceRefresh
\* handed to _onTokenRefreshed in this step (NULL when it did not call it)
FacadeAfter(t, outcome, tok, cbTok) ==
    LET cb == IF cbTok # NULL /\ _onTokenRefreshed = "facade"
              THEN cbTok ELSE config_cachedToken
    IN  IF t.origin \in {"initializeAuth", "refreshAutoToken"} /\ outcome = "token"
        THEN [token |-> tok, init |-> TRUE, method |-> "auto-refresh"]
        ELSE [token |-> cb, init |-> _authInitialized, method |-> _authMethod]

\* task i (record t) ends in this step; T and h are the timers and the handle
\* the manager code of this step left
Finish(i, t, outcome, tok, err, T, h, cbTok) ==
    LET caught == IF t.origin \in TimerOrigins /\ outcome = "error"
                  THEN TimerCatch(t.origin, T, h)
                  ELSE [timers |-> T, handle |-> h]
        f == FacadeAfter(t, outcome, tok, cbTok)
    IN  /\ tasks' = [tasks EXCEPT ![i] = Idle]
        /\ returned' = ReturnOf(t, outcome, tok, err)
        /\ timers' = caught.timers
        /\ _refreshTimeout' = caught.handle
        /\ config_cachedToken' = f.token
        /\ _authInitialized' = f.init
        /\ _authMethod' = f.method

\* task i goes on to its next await
Continue(i, t, T, h) ==
    /\ tasks' = [tasks EXCEPT ![i] = t]
    /\ returned' = NoReturn
    /\ timers' = T
    /\ _refreshTimeout' = h
    /\ UNCHANGED facadeVars

----------------------------------------------------------------------------
(* Token manager: src/lib/keychain/token-manager.js *)

\* (a variant that also rejects a token inside the refresh window)
CacheValidOutsideWindow ==
    _cachedToken # NULL /\ _tokenExpiresAt # NULL /\ _tokenExpiresAt - RefreshWindowMs > now

\* line 32 (getValidToken)
CacheValid == _cachedToken # NULL /\ _tokenExpiresAt # NULL /\ _tokenExpiresAt > now

\* line 140 (getCachedToken)
CachedTokenPeek == IF _cachedToken # NULL /\ _tokenExpiresAt # NULL /\ _tokenExpiresAt > now
                   THEN _cachedToken ELSE NULL

\* the expired records the manager holds when getValidToken() is called and
\* neither the cache nor the keychain holds an unexpired one
StaleAtCall ==
    IF CacheValid \/ StoredValid THEN {}
    ELSE (IF _cachedToken # NULL /\ _tokenExpiresAt # NULL THEN {_cachedToken} ELSE {})
         \cup (IF {KEYCHAIN_ACCOUNT, KEYCHAIN_EXPIRY_ACCOUNT} \subseteq DOMAIN keychain
               THEN {keychain[KEYCHAIN_ACCOUNT]} ELSE {})

envFrame == <<env, initCalled, _keychainTokenManager, oauthCached, _onTokenRefreshed>>

\* getValidToken(), from the call to its first await (lines 30-37, 51-53 and
\* loadToken's platform test, part_000:51-53)
StartGetValidToken(i, origin) ==
    LET t == [Idle EXCEPT !.op = "getValidToken", !.origin = origin,
                          !.stale = StaleAtCall]
    IN  /\ UNCHANGED <<keychain, issued, _cachedToken, _tokenExpiresAt>>
        /\ IF CacheValid
           THEN Finish(i, t, "token", _cachedToken, "none", timers, _refreshTimeout, NULL)
           ELSE IF platform # "darwin"
           THEN Continue(i, [t EXCEPT !.pc = "fetch", !.stored = LoadedRecord(keychain)],
                         timers, _refreshTimeout)
           ELSE Continue(i, [t EXCEPT !.pc = "load_token"], timers, _refreshTimeout)

\* forceRefresh(), from the call to `await fetchTokenFromBrowser()` (lines 60-63)
StartForceRefresh(i, origin) ==
    /\ UNCHANGED <<keychain, issued, _cachedToken, _tokenExpiresAt>>
    /\ Continue(i, [Idle EXCEPT !.op = "forceRefresh", !.origin = origin, !.pc = "fetch",
                                !.stored = LoadedRecord(keychain)],
                timers, _refreshTimeout)

\* clearCachedToken(), from the call to clearToken()'s first await
\* (lines 149-158, part_000:76-82)
StartClearCachedToken(i, origin) ==
    LET T == IF _refreshTimeout # NULL
             THEN clearTimeout(timers, _refreshTimeout) ELSE timers
        t == [Idle EXCEPT !.op = "clearCachedToken", !.origin = origin]
    IN  /\ _cachedToken' = NULL
        /\ _tokenExpiresAt' = NULL
        /\ UNCHANGED <<keychain, issued>>
        /\ IF platform # "darwin"
           THEN IF origin = "logout"
                THEN Continue(i, [t EXCEPT !.pc = "oauth_clear"], T, NULL)
                ELSE Finish(i, t, "void", NULL, "none", T, NULL, NULL)
           ELSE Continue(i, [t EXCEPT !.pc = "clear_del_token"], T, NULL)

(* Calls made directly on the manager's exports *)

GetValidToken(i) ==
    /\ IsFree(i)
    /\ StartGetValidToken(i, "direct")
    /\ UNCHANGED <<now, platform, envFrame>>
    /\ UNCHANGED listVars

ForceRefresh(i) ==
    /\ IsFree(i)
    /\ StartForceRefresh(i, "direct")
    /\ UNCHANGED <<now, platform, envFrame>>
    /\ UNCHANGED listVars

ClearCachedToken(i) ==
    /\ IsFree(i)
    /\ StartClearCachedToken(i, "direct")
    /\ UNCHANGED <<now, platform, envFrame>>
    /\ UNCHANGED listVars

\* getCachedToken() (lines 139-144): synchronous
GetCachedToken ==
    /\ returned' = [NoReturn EXCEPT !.op = "getCachedToken", !.origin = "direct",
                                    !.outcome = "token", !.token = CachedTokenPeek]
    /\ UNCHANGED <<now, platform, envFrame, keychain, issued, _cachedToken,
                   _tokenExpiresAt, _refreshTimeout, timers, tasks, facadeVars>>
    /\ UNCHANGED listVars

(* loadToken(), part_000:50-71, inside getValidToken *)

\* getFromKeychain(account) finds the entry; when it does not, it throws and
\* loadToken's catch makes that "no stored token"
Found(account) == account \in DOMAIN keychain

\* loadToken returns null (part_000:59-61, 66-70); getValidToken goes on to
\* forceRefresh() (lines 51-53)
LoadMiss(i) ==
    Continue(i, [tasks[i] EXCEPT !.pc = "fetch", !.token = NULL,
                                 !.stored = LoadedRecord(keychain)],
             timers, _refreshTimeout)

LoadToken(i) ==
    /\ tasks[i].pc = "load_token"
    /\ UNCHANGED <<now, platform, envFrame, keychain, issued, _cachedToken, _tokenExpiresAt>>
    /\ IF Found(KEYCHAIN_ACCOUNT)
       THEN Continue(i, [tasks[i] EXCEPT !.pc = "load_expiry",
                                         !.token = keychain[KEYCHAIN_ACCOUNT]],
                     timers, _refreshTimeout)
       ELSE LoadMiss(i)
    /\ UNCHANGED listVars

\* (a variant that adopts the token but dates it by the clock)
AdoptedExpiryNow(s) == now

\* the Date getValidToken adopts from the stored ISO string (part_000:63)
AdoptedExpiry(s) == DateParse(s)

\* the second read, then getValidToken lines 39-53
LoadExpiry(i) ==
    /\ tasks[i].pc = "load_expiry"
    /\ UNCHANGED <<now, platform, envFrame, keychain, issued>>
    /\ IF Found(KEYCHAIN_EXPIRY_ACCOUNT)
          /\ DateParse(keychain[KEYCHAIN_EXPIRY_ACCOUNT]) > now
       THEN LET e == AdoptedExpiry(keychain[KEYCHAIN_EXPIRY_ACCOUNT])
                s == scheduleRefresh(e)
            IN  /\ _cachedToken' = tasks[i].token
                /\ _tokenExpiresAt' = e
                /\ Finish(i, tasks[i], "token", tasks[i].token, "none",
                          s.timers, s.handle, NULL)
       ELSE /\ UNCHANGED <<_cachedToken, _tokenExpiresAt>>
            /\ LoadMiss(i)
    /\ UNCHANGED listVars

(* forceRefresh(), lines 60-83, with storeToken(), part_000:20-44 *)

\* fetchTokenFromBrowser() resolves with a fresh token, then storeToken starts
FetchSucceed(i, life) ==
    /\ tasks[i].pc = "fetch"
    /\ Len(issued) < MaxTokens
    /\ issued' = Append(issued, now + life)
    /\ UNCHANGED <<now, platform, envFrame, keychain, _cachedToken, _tokenExpiresAt>>
    /\ LET t == [tasks[i] EXCEPT !.token = Len(issued) + 1, !.expiresAt = now + life,
                                 !.fetches = @ + 1]
       IN  IF platform # "darwin"
           THEN Finish(i, t, "error", NULL, "KeychainUnsupported",
                       timers, _refreshTimeout, NULL)
           ELSE Continue(i, [t EXCEPT !.pc = "store_del_token"], timers, _refreshTimeout)
    /\ UNCHANGED listVars

\* fetchTokenFromBrowser() rejects
FetchFail(i) ==
    /\ tasks[i].pc = "fetch"
    /\ UNCHANGED <<now, platform, envFrame, keychain, issued, _cachedToken, _tokenExpiresAt>>
    /\ Finish(i, [tasks[i] EXCEPT !.fetches = @ + 1], "error", NULL, "FetchFailed",
              timers, _refreshTimeout, NULL)
    /\ UNCHANGED listVars

StoreDeleteToken(i) ==
    /\ tasks[i].pc = "store_del_token"
    /\ keychain' = deleteFromKeychain(keychain, KEYCHAIN_ACCOUNT)
    /\ UNCHANGED <<now, platform, envFrame, issued, _cachedToken, _tokenExpiresAt>>
    /\ Continue(i, [tasks[i] EXCEPT !.pc = "store_del_expiry"], timers, _refreshTimeout)
    /\ UNCHANGED listVars

StoreDeleteExpiry(i) ==
    /\ tasks[i].pc = "store_del_expiry"
    /\ keychain' = deleteFromKeychain(keychain, KEYCHAIN_EXPIRY_ACCOUNT)
    /\ UNCHANGED <<now, platform, envFrame, issued, _cachedToken, _tokenExpiresAt>>
    /\ Continue(i, [tasks[i] EXCEPT !.pc = "store_add_token"], timers, _refreshTimeout)
    /\ UNCHANGED listVars

StoreAddToken(i, ok) ==
    /\ tasks[i].pc = "store_add_token"
    /\ UNCHANGED <<now, platform, envFrame, issued, _cachedToken, _tokenExpiresAt>>
    /\ IF ok
       THEN /\ keychain' = addToKeychain(keychain, KEYCHAIN_ACCOUNT, tasks[i].token)
            /\ Continue(i, [tasks[i] EXCEPT !.pc = "store_add_expiry"],
                        timers, _refreshTimeout)
       ELSE /\ UNCHANGED keychain
            /\ Finish(i, tasks[i], "error", NULL, "KeychainStoreFailed",
                      timers, _refreshTimeout, NULL)
    /\ UNCHANGED listVars

\* the last keychain write, then forceRefresh lines 68-82
StoreAddExpiry(i, ok) ==
    /\ tasks[i].pc = "store_add_expiry"
    /\ UNCHANGED <<now, platform, envFrame, issued>>
    /\ IF ok
       THEN LET s == scheduleRefresh(tasks[i].expiresAt)
            IN  /\ keychain' = addToKeychain(keychain, KEYCHAIN_EXPIRY_ACCOUNT,
                                             toISOString(tasks[i].expiresAt))
                /\ _cachedToken' = tasks[i].token
                /\ _tokenExpiresAt' = tasks[i].expiresAt
                /\ Finish(i, tasks[i], "token", tasks[i].token, "none",
                          s.timers, s.handle, tasks[i].token)
       ELSE /\ UNCHANGED <<keychain, _cachedToken, _tokenExpiresAt>>
            /\ Finish(i, tasks[i], "error", NULL, "KeychainStoreFailed",
                      timers, _refreshTimeout, NULL)
    /\ UNCHANGED listVars

(* clearToken(), part_000:76-93, inside clearCachedToken *)

ClearDeleteToken(i) ==
    /\ tasks[i].pc = "clear_del_token"
    /\ keychain' = deleteFromKeychain(keychain, KEYCHAIN_ACCOUNT)
    /\ UNCHANGED <<now, platform, envFrame, issued, _cachedToken, _tokenExpiresAt>>
    /\ Continue(i, [tasks[i] EXCEPT !.pc = "clear_del_expiry"], timers, _refreshTimeout)
    /\ UNCHANGED listVars

ClearDeleteExpiry(i) ==
    /\ tasks[i].pc = "clear_del_expiry"
    /\ keychain' = deleteFromKeychain(keychain, KEYCHAIN_EXPIRY_ACCOUNT)
    /\ UNCHANGED <<now, platform, envFrame, issued, _cachedToken, _tokenExpiresAt>>
    /\ IF tasks[i].origin = "logout"
       THEN Continue(i, [tasks[i] EXCEPT !.pc = "oauth_clear"], timers, _refreshTimeout)
       ELSE Finish(i, tasks[i], "void", NULL, "none", timers, _refreshTimeout, NULL)
    /\ UNCHANGED listVars

(* The event loop: a due timer runs its callback; time passes *)

\* the callback runs up to forceRefresh()'s first await
FireTimer(id, i) ==
    /\ id \in DOMAIN timers
    /\ timers[id].due <= now
    /\ IsFree(i)
    /\ UNCHANGED <<now, platform, envFrame, keychain, issued, _cachedToken, _tokenExpiresAt>>
    /\ Continue(i, [Idle EXCEPT !.op = "forceRefresh", !.origin = timers[id].kind,
                                !.pc = "fetch", !.stored = LoadedRecord(keychain)],
                clearTimeout(timers, id), _refreshTimeout)
    /\ UNCHANGED listVars

\* the instants at which something can change: a timer falls due, a token expires
TimePoints == {issued[k] : k \in DOMAIN issued} \cup {timers[id].due : id \in DOMAIN timers}

\* a keychain command (a local child process) runs to completion within the
\* clock's resolution; the browser flow and network calls take real time
SlowAwaits == {"idle", "fetch", "oauth_token", "oauth_clear"}

Tick(t) ==
    /\ t \in TimePoints
    /\ \A i \in Slots : tasks[i].pc \in SlowAwaits
    /\ t > now
    /\ t <= MaxNow
    /\ now' = t
    /\ returned' = NoReturn
    /\ UNCHANGED <<platform, envFrame, keychain, issued, _cachedToken, _tokenExpiresAt,
                   _refreshTimeout, timers, tasks, facadeVars>>
    /\ UNCHANGED listVars

----------------------------------------------------------------------------
(* The list_messages tool at rest *)

AfterAbsent == [kind |-> "undefined", ms |-> 0]
NoArgs == [beforeMessage |-> NULL, after |-> AfterAbsent, max |-> 0]
NoResult == [pending |-> TRUE]

ListIdle ==
    /\ room = <<>>
    /\ args = NoArgs
    /\ lpc = "idle"
    /\ collectedMessages = <<>>
    /\ cursor = NULL
    /\ iterations = 0
    /\ fetches = 0
    /\ served = <<>>
    /\ result = NoResult

----------------------------------------------------------------------------
(* The manager driven through its exports *)

NoEnv == [WEBEX_PUBLIC_WORKSPACE_API_KEY |-> [set |-> FALSE, bearer |-> FALSE, body |-> NULL],
          WEBEX_AUTO_REFRESH_TOKEN |-> "unset", oauth |-> FALSE]

\* what a previous run of the server may have left in the keychain
InitialKeychains ==
    {<<>>} \cup {[a \in {KEYCHAIN_ACCOUNT, KEYCHAIN_EXPIRY_ACCOUNT} |->
                    IF a = KEYCHAIN_ACCOUNT THEN 1 ELSE toISOString(e)]
                 : e \in InitialExpiries}

InitManager ==
    /\ now = StartMs
    /\ keychain \in InitialKeychains
    /\ issued = IF keychain = <<>> THEN <<>>
                ELSE <<DateParse(keychain[KEYCHAIN_EXPIRY_ACCOUNT])>>
    /\ _cachedToken = NULL
    /\ _tokenExpiresAt = NULL
    /\ _refreshTimeout = NULL
    /\ _onTokenRefreshed = "null"
    /\ timers = <<>>
    /\ tasks = [i \in Slots |-> Idle]
    /\ returned = NoReturn

\* the manager's module is only ever loaded on macOS (webex-config.js:45, 299)
Init ==
    /\ InitManager
    /\ ListIdle
    /\ platform = "darwin"
    /\ env = NoEnv
    /\ initCalled = FALSE
    /\ config_cachedToken = NULL
    /\ _authInitialized = FALSE
    /\ _authMethod = "null"
    /\ _keychainTokenManager = FALSE
    /\ oauthCached = NULL

ManagerStep ==
    \/ \E i \in Slots : LoadToken(i)
    \/ \E i \in Slots : LoadExpiry(i)
    \/ \E i \in Slots, life \in Lifetimes : FetchSucceed(i, life)
    \/ \E i \in Slots : FetchFail(i)
    \/ \E i \in Slots : StoreDeleteToken(i)
    \/ \E i \in Slots : StoreDeleteExpiry(i)
    \/ \E i \in Slots, ok \in BOOLEAN : StoreAddToken(i, ok)
    \/ \E i \in Slots, ok \in BOOLEAN : StoreAddExpiry(i, ok)
    \/ \E i \in Slots : ClearDeleteToken(i)
    \/ \E i \in Slots : ClearDeleteExpiry(i)
    \/ \E id \in DOMAIN timers, i \in Slots : FireTimer(id, i)
    \/ \E t \in TimePoints : Tick(t)

Next ==
    \/ \E i \in Slots : GetValidToken(i)
    \/ \E i \in Slots : ForceRefresh(i)
    \/ \E i \in Slots : ClearCachedToken(i)
    \/ GetCachedToken
    \/ ManagerStep

Spec == Init /\ [][Next]_vars

----------------------------------------------------------------------------
(* Auth facade: src/lib/webex-config.js *)

\* process.env.WEBEX_PUBLIC_WORKSPACE_API_KEY: unset, "", "<token>" or
\* "Bearer <token>"; body is the text after the optional "Bearer " prefix
EnvUnset == [set |-> FALSE, bearer |-> FALSE, body |-> NULL]
OAuthTokens == {80, 81}

\* a JavaScript string is truthy when it is not empty
Truthy(v) == v.set /\ (v.bearer \/ v.body # NULL)
\* staticToken.replace(/^Bearer\s+/, '') (line 36)
StripBearer(v) == v.body

hasStaticToken == Truthy(env.WEBEX_PUBLIC_WORKSPACE_API_KEY)
hasAutoRefresh == env.WEBEX_AUTO_REFRESH_TOKEN = "true"
hasOAuthCredentials == env.oauth

\* the order of the checks in initializeAuth() (lines 35, 44, 66, 76)
ConfiguredModeOAuthFirst ==
    IF hasOAuthCredentials THEN "oauth"
    ELSE IF hasStaticToken THEN "static"
    ELSE IF hasAutoRefresh THEN "auto-refresh"
    ELSE "null"

ConfiguredMode ==
    IF hasStaticToken THEN "static"
    ELSE IF hasAutoRefresh THEN "auto-refresh"
    ELSE IF hasOAuthCredentials THEN "oauth"
    ELSE "null"

\* a facade call that returns without awaiting anything
FacadeReturns(op, outcome, tok, err) ==
    /\ returned' = [NoReturn EXCEPT !.op = op, !.origin = "facade",
                                    !.outcome = outcome, !.token = tok, !.err = err]
    /\ UNCHANGED <<tasks, timers, _refreshTimeout>>

mgrFrame == <<keychain, issued, _cachedToken, _tokenExpiresAt>>

\* initializeAuth() (lines 32-81), up to its first await
InitializeAuth(i) ==
    /\ ~initCalled
    /\ initCalled' = TRUE
    /\ IsFree(i)
    /\ UNCHANGED <<now, platform, env, oauthCached>>
    /\ IF ConfiguredMode = "static"
       THEN /\ config_cachedToken' = StripBearer(env.WEBEX_PUBLIC_WORKSPACE_API_KEY)
            /\ _authInitialized' = TRUE
            /\ _authMethod' = "static"
            /\ FacadeReturns("initializeAuth", "void", NULL, "none")
            /\ UNCHANGED <<mgrFrame, _keychainTokenManager, _onTokenRefreshed>>
       ELSE IF ConfiguredMode = "auto-refresh"
       THEN IF platform # "darwin"
            THEN /\ FacadeReturns("initializeAuth", "error", NULL, "PlatformUnsupported")
                 /\ UNCHANGED <<mgrFrame, facadeVars, _keychainTokenManager,
                                _onTokenRefreshed>>
            ELSE /\ _keychainTokenManager' = TRUE
                 /\ _onTokenRefreshed' = "facade"
                 /\ StartGetValidToken(i, "initializeAuth")
       ELSE IF ConfiguredMode = "oauth"
       THEN /\ Continue(i, [Idle EXCEPT !.op = "oauthGetValidToken",
                                        !.origin = "initializeAuth", !.pc = "oauth_token"],
                        timers, _refreshTimeout)
            /\ UNCHANGED <<mgrFrame, _keychainTokenManager, _onTokenRefreshed>>
       ELSE /\ FacadeReturns("initializeAuth", "error", NULL, "NoAuthConfigured")
            /\ UNCHANGED <<mgrFrame, facadeVars, _keychainTokenManager, _onTokenRefreshed>>
    /\ UNCHANGED listVars

\* the OAuth module's getValidToken() / forceReauthenticate() settles
\* (lines 68-71 and 270-291)
OAuthToken(i, ok, tok) ==
    /\ tasks[i].pc = "oauth_token"
    /\ UNCHANGED <<now, platform, env, initCalled, mgrFrame, _keychainTokenManager,
                   _onTokenRefreshed, timers, _refreshTimeout>>
    /\ tasks' = [tasks EXCEPT ![i] = Idle]
    /\ IF ok
       THEN /\ oauthCached' = tok
            /\ config_cachedToken' = tok
            /\ _authInitialized' = TRUE
            /\ _authMethod' = "oauth"
            /\ returned' = [NoReturn EXCEPT !.op = tasks[i].origin, !.origin = "facade",
                               !.outcome = IF tasks[i].origin = "initializeAuth"
                                           THEN "void" ELSE "success"]
       ELSE /\ UNCHANGED <<oauthCached, facadeVars>>
            /\ returned' = [NoReturn EXCEPT !.op = tasks[i].origin, !.origin = "facade",
                               !.outcome = IF tasks[i].origin = "initializeAuth"
                                           THEN "error" ELSE "failure",
                               !.err = "OAuthFailed"]
    /\ UNCHANGED listVars

\* getWebexToken() (lines 104-130): synchronous
\* (a variant that prefers the OAuth cache without looking at the mode)
TokenAfterRecheckAnyMode ==
    IF oauthCached # NULL THEN oauthCached
    ELSE IF _keychainTokenManager /\ CachedTokenPeek # NULL THEN CachedTokenPeek
    ELSE config_cachedToken

TokenAfterRecheck ==
    IF _authMethod = "oauth" /\ oauthCached # NULL THEN oauthCached
    ELSE IF _authMethod = "auto-refresh" /\ _keychainTokenManager /\ CachedTokenPeek # NULL
    THEN CachedTokenPeek
    ELSE config_cachedToken

GetWebexToken ==
    /\ config_cachedToken' = TokenAfterRecheck
    /\ IF ~_authInitialized
       THEN FacadeReturns("getWebexToken", "error", NULL, "AuthNotInitialized")
       ELSE IF TokenAfterRecheck = NULL
       THEN FacadeReturns("getWebexToken", "error", NULL, "NoValidToken")
       ELSE FacadeReturns("getWebexToken", "token", TokenAfterRecheck, "none")
    /\ UNCHANGED <<now, platform, env, initCalled, oauthCached, mgrFrame,
                   _keychainTokenManager, _onTokenRefreshed, _authInitialized, _authMethod>>
    /\ UNCHANGED listVars

\* refreshAutoToken() (lines 298-330), up to forceRefresh()'s first await
StartRefreshAutoToken(i) ==
    IF platform # "darwin"
    THEN /\ FacadeReturns("refreshAutoToken", "failure", NULL, "PlatformUnsupported")
         /\ UNCHANGED <<mgrFrame, facadeVars, _keychainTokenManager, _onTokenRefreshed>>
    ELSE /\ _keychainTokenManager' = TRUE
         /\ _onTokenRefreshed' = IF _keychainTokenManager THEN _onTokenRefreshed
                                 ELSE "facade"
         /\ StartForceRefresh(i, "refreshAutoToken")

RefreshAutoToken(i) ==
    /\ IsFree(i)
    /\ UNCHANGED <<now, platform, env, initCalled, oauthCached>>
    /\ StartRefreshAutoToken(i)
    /\ UNCHANGED listVars

\* reauthenticate(force) (lines 247-292), up to its first await
Reauthenticate(i) ==
    /\ IsFree(i)
    /\ UNCHANGED <<now, platform, env, initCalled, oauthCached>>
    /\ IF hasStaticToken
       THEN /\ FacadeReturns("reauthenticate", "failure", NULL, "StaticToken")
            /\ UNCHANGED <<mgrFrame, facadeVars, _keychainTokenManager, _onTokenRefreshed>>
       ELSE IF hasAutoRefresh
       THEN StartRefreshAutoToken(i)
       ELSE IF ~hasOAuthCredentials
       THEN /\ FacadeReturns("reauthenticate", "failure", NULL, "OAuthNotConfigured")
            /\ UNCHANGED <<mgrFrame, facadeVars, _keychainTokenManager, _onTokenRefreshed>>
       ELSE /\ Continue(i, [Idle EXCEPT !.op = "oauthGetValidToken",
                                        !.origin = "reauthenticate", !.pc = "oauth_token"],
                        timers, _refreshTimeout)
            /\ UNCHANGED <<mgrFrame, _keychainTokenManager, _onTokenRefreshed>>
    /\ UNCHANGED listVars

\* logout() (lines 336-370), up to its first await
Logout(i) ==
    /\ IsFree(i)
    /\ UNCHANGED <<now, platform, env, initCalled, oauthCached, _keychainTokenManager,
                   _onTokenRefreshed>>
    /\ IF hasStaticToken
       THEN /\ FacadeReturns("logout", "failure", NULL, "StaticToken")
            /\ UNCHANGED <<mgrFrame, facadeVars>>
       ELSE IF hasAutoRefresh /\ _keychainTokenManager
       THEN StartClearCachedToken(i, "logout")
       ELSE /\ Continue(i, [Idle EXCEPT !.op = "logout", !.origin = "logout",
                                        !.pc = "oauth_clear"],
                        timers, _refreshTimeout)
            /\ UNCHANGED mgrFrame
    /\ UNCHANGED listVars

\* the OAuth module's clearTokens() settles, then lines 356-369
OAuthClear(i, ok) ==
    /\ tasks[i].pc = "oauth_clear"
    /\ UNCHANGED <<now, platform, env, initCalled, mgrFrame, _keychainTokenManager,
                   _onTokenRefreshed, timers, _refreshTimeout>>
    /\ tasks' = [tasks EXCEPT ![i] = Idle]
    /\ IF ok
       THEN /\ oauthCached' = NULL
            /\ config_cachedToken' = NULL
            /\ _authInitialized' = FALSE
            /\ _authMethod' = "null"
            /\ returned' = [NoReturn EXCEPT !.op = "logout", !.origin = "facade",
                                            !.outcome = "success"]
       ELSE /\ UNCHANGED <<oauthCached, facadeVars>>
            /\ returned' = [NoReturn EXCEPT !.op = "logout", !.origin = "facade",
                                            !.outcome = "failure", !.err = "ClearFailed"]
    /\ UNCHANGED listVars

EnvOf(static, auto, oauth) ==
    [WEBEX_PUBLIC_WORKSPACE_API_KEY |-> static, WEBEX_AUTO_REFRESH_TOKEN |-> auto,
     oauth |-> oauth]

\* the configurations explored: every priority of initializeAuth() with the
\* lower priorities also configured, and the empty static token
Envs == {EnvOf([set |-> TRUE, bearer |-> TRUE, body |-> 90], "true", TRUE),
         EnvOf([set |-> TRUE, bearer |-> FALSE, body |-> 90], "unset", FALSE),
         EnvOf([set |-> TRUE, bearer |-> FALSE, body |-> NULL], "true", TRUE),
         EnvOf(EnvUnset, "true", FALSE),
         EnvOf(EnvUnset, "false", TRUE),
         EnvOf(EnvUnset, "unset", FALSE)}

InitFacade ==
    /\ InitManager
    /\ ListIdle
    /\ platform \in Platforms
    /\ platform # "darwin" => keychain = <<>>
    /\ env \in Envs
    /\ initCalled = FALSE
    /\ config_cachedToken = NULL
    /\ _authInitialized = FALSE
    /\ _authMethod = "null"
    /\ _keychainTokenManager = FALSE
    /\ oauthCached = NULL

NextFacade ==
    \/ \E i \in Slots : InitializeAuth(i)
    \/ \E i \in Slots, ok \in BOOLEAN, tok \in OAuthTokens : OAuthToken(i, ok, tok)
    \/ GetWebexToken
    \/ \E i \in Slots : RefreshAutoToken(i)
    \/ \E i \in Slots : Reauthenticate(i)
    \/ \E i \in Slots : Logout(i)
    \/ \E i \in Slots, ok \in BOOLEAN : OAuthClear(i, ok)
    \/ ManagerStep

SpecFacade == InitFacade /\ [][NextFacade]_vars

----------------------------------------------------------------------------
(* The list_messages tool:                                                 *)
(* src/tools/webex-public-workspace/webex-messaging/list-messages.js       *)

\* created timestamps of messages, and the instants an `after` bound names
CreatedTimes == {1, 2}
AfterTimes == {1, 2, 3}

\* the `after` argument: undefined, "", a text that is no date, an ISO date
AfterValues ==
    {AfterAbsent, [kind |-> "empty", ms |-> 0], [kind |-> "text", ms |-> 0]}
        \cup {[kind |-> "iso", ms |-> t] : t \in AfterTimes}

\* the `max` argument: not given, or a number
MaxValues ==
    {[given |-> FALSE, n |-> 0]} \cup {[given |-> TRUE, n |-> k] : k \in 0..MaxMax}

\* the room's messages, newest first as the API lists them; a message's id
\* is its position
Rooms ==
    UNION {[1..n -> CreatedTimes] : n \in 0..MaxRoom}

MessageAt(k) == [id |-> k, created |-> room[k]]

\* `max = 50` in the parameter list (line 57)
WithDefault(m) == IF m.given THEN m.n ELSE 50

\* `!after` (line 62) and `max &&` / `max ?` (lines 116, 131)
Falsy(v) == v.kind \in {"undefined", "empty"}
TruthyNumber(n) == n # 0

\* new Date(after).getTime() and isNaN (lines 74-75)
NaN == -1
NewDate(v) == IF v.kind = "iso" THEN v.ms ELSE NaN
\* (a variant that accepts every date)
isNaNNever(d) == FALSE
isNaN(d) == d = NaN

Min(a, b) == IF a <= b THEN a ELSE b

\* the list endpoint (lines 8-26): up to n messages older than message c
Page(c, n) ==
    [k \in 1..Min(n, Len(room) - c) |-> MessageAt(c + k)]

\* (a variant without the try/catch of lines 58 and 139-145)
Uncaught(e) == [thrown |-> e]

\* catch (error) { return { error, details } } (lines 139-145)
Caught(e) == [error |-> e, details |-> "stack"]

\* getWebexHeaders() -> getWebexToken() (webex-config.js:137-145, 104-130)
HeadersError ==
    IF ~_authInitialized THEN "AuthNotInitialized"
    ELSE IF TokenAfterRecheck = NULL THEN "NoValidToken"
    ELSE "none"

listFrame == <<now, platform, keychain, issued, _cachedToken, _tokenExpiresAt,
               _refreshTimeout, _onTokenRefreshed, timers, tasks, returned, env,
               initCalled, _authInitialized, _authMethod, _keychainTokenManager,
               oauthCached, room>>

\* (a variant of the scan that skips older items instead of stopping)
RECURSIVE InRangeFilter(_, _)
InRangeFilter(items, afterDate) ==
    IF items = <<>> THEN <<>>
    ELSE IF Head(items).created >= afterDate
    THEN <<Head(items)>> \o InRangeFilter(Tail(items), afterDate)
    ELSE InRangeFilter(Tail(items), afterDate)

\* the scan of one batch (lines 98-109): the items before the first one
\* that is older than afterDate
RECURSIVE InRangePrefix(_, _)
InRangePrefix(items, afterDate) ==
    IF items = <<>> \/ ~(Head(items).created >= afterDate) THEN <<>>
    ELSE <<Head(items)>> \o InRangePrefix(Tail(items), afterDate)

\* max ? collectedMessages.slice(0, max) : collectedMessages (line 131)
Limited(c, max) ==
    IF TruthyNumber(max) THEN SubSeq(c, 1, Min(max, Len(c))) ELSE c

\* the value returned after the loop (lines 131-138)
Filtered(c) ==
    [items |-> Limited(c, args.max), count |-> Len(Limited(c, args.max)),
     filtered |-> TRUE, afterFilter |-> args.after]

ListReturns(r) ==
    /\ result' = r
    /\ lpc' = "done"

\* (a variant of the loop condition without the cap)
LoopGoesOnUncapped == TRUE

\* while (iterations < maxIterations) (line 85)
LoopGoesOn == iterations < maxIterations

\* executeFunction is called (lines 57-90): up to its first fetch.  Its
\* locals are fresh in every call, so one call per behaviour is explored
ListMessages(bm, after, m) ==
    /\ lpc = "idle"
    /\ bm <= Len(room)
    /\ args' = [beforeMessage |-> bm, after |-> after, max |-> WithDefault(m)]
    /\ collectedMessages' = <<>>
    /\ served' = <<>>
    /\ cursor' = bm
    /\ config_cachedToken' = TokenAfterRecheck
    /\ UNCHANGED listFrame
    /\ IF HeadersError # "none"
       THEN /\ ListReturns(Caught(HeadersError))
            /\ iterations' = 0
            /\ fetches' = 0
       ELSE IF Falsy(after)
       THEN /\ lpc' = "single"
            /\ result' = NoResult
            /\ iterations' = 0
            /\ fetches' = 1
       ELSE IF isNaN(NewDate(after))
       THEN /\ ListReturns(Caught("InvalidTimeBound"))
            /\ iterations' = 0
            /\ fetches' = 0
       ELSE /\ lpc' = "batch"
            /\ result' = NoResult
            /\ iterations' = 1
            /\ fetches' = 1

\* the single fetch without `after` settles (lines 63-70, 21-26)
SingleResponse(ok) ==
    /\ lpc = "single"
    /\ UNCHANGED <<listFrame, config_cachedToken, args, collectedMessages, cursor,
                   iterations, fetches>>
    /\ IF ok
       THEN /\ served' = Page(args.beforeMessage, args.max)
            /\ ListReturns([items |-> Page(args.beforeMessage, args.max)])
       ELSE /\ served' = served
            /\ ListReturns(Caught("UpstreamHttpError"))

\* (a variant that takes the id of the newest item of the batch)
NextCursorNewest(items) == items[1].id

\* cursor = data.items[data.items.length - 1].id (line 122)
NextCursor(items) == items[Len(items)].id

\* a batch fetch of the loop settles (lines 88-128, 21-26), up to the next
\* fetch or the return
BatchResponse(ok) ==
    /\ lpc = "batch"
    /\ UNCHANGED <<listFrame, config_cachedToken, args>>
    /\ IF ~ok
       THEN /\ ListReturns(Caught("UpstreamHttpError"))
            /\ UNCHANGED <<collectedMessages, cursor, iterations, fetches, served>>
       ELSE LET items == Page(cursor, batchSize)
                afterDate == NewDate(args.after)
                inRange == InRangePrefix(items, afterDate)
                foundOlderMessage == Len(inRange) < Len(items)
                collected == collectedMessages \o inRange
                hitMax == TruthyNumber(args.max) /\ Len(collected) >= args.max
                spliced == IF hitMax THEN SubSeq(collected, 1, args.max) ELSE collected
                stopsBeforeCursor == items = <<>> \/ foundOlderMessage \/ hitMax
                stops == stopsBeforeCursor \/ Len(items) < batchSize \/ ~LoopGoesOn
            IN  /\ served' = served \o items
                /\ collectedMessages' = IF items = <<>> \/ foundOlderMessage
                                        THEN collected ELSE spliced
                /\ cursor' = IF stopsBeforeCursor THEN cursor
                             ELSE NextCursor(items)
                /\ IF stops
                   THEN /\ ListReturns(Filtered(collectedMessages'))
                        /\ UNCHANGED <<iterations, fetches>>
                   ELSE /\ lpc' = "batch"
                        /\ result' = NoResult
                        /\ iterations' = iterations + 1
                        /\ fetches' = fetches + 1

\* a server whose static token is configured and initialized, or whose
\* initializeAuth() has not completed; some room
InitList ==
    /\ InitManager
    /\ keychain = <<>>
    /\ platform = "darwin"
    /\ _keychainTokenManager = FALSE
    /\ oauthCached = NULL
    /\ \/ /\ env = EnvOf([set |-> TRUE, bearer |-> FALSE, body |-> 90], "unset", FALSE)
          /\ initCalled = TRUE
          /\ config_cachedToken = 90
          /\ _authInitialized = TRUE
          /\ _authMethod = "static"
       \/ /\ env = NoEnv
          /\ initCalled = FALSE
          /\ config_cachedToken = NULL
          /\ _authInitialized = FALSE
          /\ _authMethod = "null"
    /\ room \in Rooms
    /\ args = NoArgs
    /\ lpc = "idle"
    /\ collectedMessages = <<>>
    /\ cursor = NULL
    /\ iterations = 0
    /\ fetches = 0
    /\ served = <<>>
    /\ result = NoResult

NextList ==
    \/ \E bm \in {NULL, 1}, after \in AfterValues, m \in MaxValues :
          ListMessages(bm, after, m)
    \/ \E ok \in BOOLEAN : SingleResponse(ok)
    \/ \E ok \in BOOLEAN : BatchResponse(ok)

SpecList == InitList /\ [][NextList]_vars

\* every request the tool has issued is eventually answered, with a body or
\* with an error status
SpecListFair ==
    /\ SpecList
    /\ WF_vars(\E ok \in BOOLEAN : SingleResponse(ok))
    /\ WF_vars(\E ok \in BOOLEAN : BatchResponse(ok))

----------------------------------------------------------------------------
(* Claims about the token manager *)

\* C1: in every reachable state at most one refresh timer is active.
C1_AtMostOneActiveTimer == Cardinality(DOMAIN timers) <= 1

\* C2: a token getValidToken() returns belongs to a record whose expiresAt is
\* later than the clock at the moment of return.
C2_NeverReturnsExpired ==
    (returned.op = "getValidToken" /\ returned.outcome = "token")
        => issued[returned.token] > now

\* C3: a getValidToken() call made while the records the manager holds are
\* expired invokes the fetcher exactly once and does not return a stale token.
C3_ExpiredTriggersOneFetch ==
    (returned.op = "getValidToken" /\ returned.stale # {})
        => /\ returned.fetches = 1
           /\ returned.token \notin returned.stale

\* a step in which getValidToken() is called
CallsGetValidToken ==
    \/ \E i \in Slots : tasks[i].pc = "idle" /\ tasks'[i].op = "getValidToken"
    \/ returned'.op = "getValidToken" /\ tasks' = tasks

\* C4: called while the in-memory record is unexpired, getValidToken()
\* returns exactly the cached token at once, without a fetch and without
\* touching the cache, the keychain or the timer.
C4_CacheHitReturnsCached ==
    [][ (_cachedToken # NULL /\ _tokenExpiresAt > now /\ CallsGetValidToken)
            => /\ returned'.op = "getValidToken"
               /\ returned'.outcome = "token"
               /\ returned'.token = _cachedToken
               /\ returned'.fetches = 0
               /\ tasks' = tasks
               /\ UNCHANGED <<_cachedToken, _tokenExpiresAt, keychain, issued,
                              timers, _refreshTimeout>> ]_vars

\* a cache hit some time after the timer was set: the call set no timer
C4_Witness ==
    /\ returned.op = "getValidToken"
    /\ returned.outcome = "token"
    /\ returned.token = _cachedToken
    /\ _tokenExpiresAt > now
    /\ _refreshTimeout \in DOMAIN timers
    /\ timers[_refreshTimeout].due - timers[_refreshTimeout].delay < now

\* a step in which a timer callback's refresh failed
TimerRefreshFailed == returned'.op = "timerCallback" /\ returned'.err # "none"

\* exactly one timer was added in this step, a retry 5 minutes from now
OneRetryScheduled ==
    \E id \in DOMAIN timers' :
        /\ id \notin DOMAIN timers
        /\ DOMAIN timers' = DOMAIN timers \cup {id}
        /\ timers'[id] = [kind |-> "retry", due |-> now + 5 * 60 * 1000,
                          delay |-> 5 * 60 * 1000]
        /\ \A x \in DOMAIN timers : timers'[x] = timers[x]

\* C5: every failed timer-driven refresh, immediate or at
\* refreshAt, schedules exactly one retry 5 minutes later; a failed retry
\* schedules nothing; the failure never leaves the callback.
C5_EveryTimerFailureRetries ==
    [][ TimerRefreshFailed
            => /\ returned'.outcome = "void"
               /\ IF returned'.origin \in {"scheduled", "immediate"}
                  THEN OneRetryScheduled ELSE timers' = timers ]_vars

\* C6: the timer scheduleRefresh sets for expiry E at time now has delay
\* E - 30 min - now when that is positive and the fixed 1000 ms otherwise;
\* the delay is never zero or negative.
C6_RefreshDelay ==
    [][ \A id \in DOMAIN timers' :
            (id \notin DOMAIN timers /\ timers'[id].kind # "retry")
                => LET d == _tokenExpiresAt' - 30 * 60 * 1000 - now
                   IN  /\ timers'[id].delay = IF d > 0 THEN d ELSE 1000
                       /\ timers'[id].delay > 0
                       /\ timers'[id].due = now + timers'[id].delay
                       /\ timers'[id].kind = IF d > 0 THEN "scheduled" ELSE "immediate"
      ]_vars

\* a token expiring in 10 minutes has just been given the immediate refresh
C6_Witness ==
    /\ _tokenExpiresAt = now + 10 * 60 * 1000
    /\ _refreshTimeout \in DOMAIN timers
    /\ timers[_refreshTimeout] = [kind |-> "immediate", due |-> now + 1000, delay |-> 1000]

\* C7: when clearCachedToken() has completed, no timer is pending, the
\* in-memory record is empty and the keychain holds no record.
C7_ClearLeavesNothing ==
    (returned.op = "clearCachedToken" /\ returned.outcome = "void")
        => /\ timers = <<>>
           /\ _cachedToken = NULL
           /\ _tokenExpiresAt = NULL
           /\ keychain = <<>>

\* steps of forceRefresh() and of getValidToken()'s adoption of the stored record
CacheAssigned ==
    /\ _cachedToken' # NULL
    /\ _cachedToken' # _cachedToken \/ _tokenExpiresAt' # _tokenExpiresAt
HandleAssigned == _refreshTimeout' # NULL /\ _refreshTimeout' # _refreshTimeout
KeychainWritten ==
    \E a \in DOMAIN keychain' : a \notin DOMAIN keychain \/ keychain'[a] # keychain[a]
ForceRefreshCompletes(i) ==
    /\ tasks[i].pc = "store_add_expiry"
    /\ tasks'[i].pc = "idle"
    /\ _cachedToken' = tasks[i].token
    /\ _tokenExpiresAt' = tasks[i].expiresAt
AdoptsStored(i) ==
    /\ tasks[i].pc = "load_expiry"
    /\ tasks'[i].pc = "idle"
    /\ KEYCHAIN_EXPIRY_ACCOUNT \in DOMAIN keychain
    /\ _cachedToken' = tasks[i].token
    /\ _tokenExpiresAt' = keychain[KEYCHAIN_EXPIRY_ACCOUNT].iso
StoreTokenWrites(i) ==
    \/ /\ tasks[i].pc = "store_add_token"
       /\ keychain' = PutEntry(keychain, KEYCHAIN_ACCOUNT, tasks[i].token)
    \/ /\ tasks[i].pc = "store_add_expiry"
       /\ keychain' = PutEntry(keychain, KEYCHAIN_EXPIRY_ACCOUNT,
                               [iso |-> tasks[i].expiresAt])
ReadPathStep ==
    \/ returned'.op = "getCachedToken"
    \/ returned'.op = "getValidToken" /\ tasks' = tasks

\* C8 (as claimed): the in-memory record, the persisted record and the timer
\* handle are assigned only inside forceRefresh(); a getValidToken() that
\* does not go through forceRefresh(), and getCachedToken(), leave the
\* in-memory record and the timer unchanged.
C8_OnlyForceRefreshAssigns ==
    [][ /\ CacheAssigned => \E i \in Slots : ForceRefreshCompletes(i)
        /\ HandleAssigned => \E i \in Slots : ForceRefreshCompletes(i)
        /\ KeychainWritten => \E i \in Slots : StoreTokenWrites(i)
        /\ (returned'.op = "getCachedToken"
              \/ (returned'.op = "getValidToken" /\ returned'.fetches = 0))
             => UNCHANGED <<_cachedToken, _tokenExpiresAt, _refreshTimeout, timers>>
      ]_vars

\* C8 (amended): the persisted record is written only inside forceRefresh();
\* the in-memory record is assigned only by forceRefresh() (the fetched
\* record) or by getValidToken()'s adoption of the stored record (the token
\* and expiry it read); the handle is assigned only there or by the retry of
\* a failed scheduled refresh; getCachedToken() and getValidToken()'s cache
\* hit are pure reads.
C8_AssignedByRefreshOrAdoption ==
    [][ /\ CacheAssigned
             => \E i \in Slots : ForceRefreshCompletes(i) \/ AdoptsStored(i)
        /\ HandleAssigned
             => \/ \E i \in Slots : ForceRefreshCompletes(i) \/ AdoptsStored(i)
                \/ TimerRefreshFailed /\ returned'.origin = "scheduled"
        /\ KeychainWritten => \E i \in Slots : StoreTokenWrites(i)
        /\ ReadPathStep
             => UNCHANGED <<_cachedToken, _tokenExpiresAt, _refreshTimeout, timers,
                            keychain, issued>>
      ]_vars

\* getValidToken() has just adopted the stored record and set the timer
C8_Witness ==
    /\ returned.op = "getValidToken"
    /\ returned.outcome = "token"
    /\ returned.fetches = 0
    /\ returned.token = _cachedToken
    /\ _refreshTimeout \in DOMAIN timers
    /\ timers[_refreshTimeout].due - timers[_refreshTimeout].delay = now

\* C9: getValidToken() fails only if the fetcher itself fails; a failure
\* of the keychain load, store or clear never makes it fail.
C9_FailsOnlyIfFetcherFails ==
    (returned.op = "getValidToken" /\ returned.outcome = "error")
        => returned.err = "FetchFailed"

----------------------------------------------------------------------------
(* Claims about the auth facade *)

StaticPresent ==
    /\ env.WEBEX_PUBLIC_WORKSPACE_API_KEY.set
    /\ \/ env.WEBEX_PUBLIC_WORKSPACE_API_KEY.bearer
       \/ env.WEBEX_PUBLIC_WORKSPACE_API_KEY.body # NULL

ManagerUntouched ==
    UNCHANGED <<keychain, issued, _cachedToken, _tokenExpiresAt, _refreshTimeout,
                _onTokenRefreshed, timers, _keychainTokenManager>>

\* C10: when initializeAuth() completes, the mode it selected is the first
\* match over the configuration: a static token gives static, synchronously
\* and without touching the token manager, whatever else is configured;
\* otherwise the auto-refresh flag gives auto-refresh, or on a host that is
\* not macOS a platform-unsupported error with the facade left as it was;
\* otherwise OAuth credentials give oauth; otherwise the call fails with
\* no-auth-configured and leaves the facade as it was.  A failure of the
\* selected mode's token source is reported and selects nothing.
C10_FirstMatchPriority ==
    [][returned'.op = "initializeAuth" =>
          IF StaticPresent
          THEN /\ ~initCalled
               /\ returned'.outcome = "void"
               /\ _authMethod' = "static"
               /\ _authInitialized'
               /\ config_cachedToken' = env.WEBEX_PUBLIC_WORKSPACE_API_KEY.body
               /\ ManagerUntouched
          ELSE IF env.WEBEX_AUTO_REFRESH_TOKEN = "true"
          THEN IF platform # "darwin"
               THEN /\ ~initCalled
                    /\ returned'.outcome = "error"
                    /\ returned'.err = "PlatformUnsupported"
                    /\ UNCHANGED facadeVars
                    /\ ManagerUntouched
               ELSE \/ /\ returned'.outcome = "void"
                       /\ _authMethod' = "auto-refresh"
                       /\ _authInitialized'
                       /\ config_cachedToken' \in 1..MaxTokens
                    \/ /\ returned'.outcome = "error"
                       /\ returned'.err \in {"FetchFailed", "KeychainStoreFailed"}
                       /\ UNCHANGED facadeVars
          ELSE IF env.oauth
          THEN \/ /\ returned'.outcome = "void"
                  /\ _authMethod' = "oauth"
                  /\ _authInitialized'
                  /\ config_cachedToken' \in OAuthTokens
                  /\ ManagerUntouched
               \/ /\ returned'.outcome = "error"
                  /\ returned'.err = "OAuthFailed"
                  /\ UNCHANGED facadeVars
          ELSE /\ ~initCalled
               /\ returned'.outcome = "error"
               /\ returned'.err = "NoAuthConfigured"
               /\ UNCHANGED facadeVars
               /\ ManagerUntouched]_vars

\* initializeAuth() has returned in static mode although the auto-refresh
\* flag and OAuth credentials are configured as well
C10_Witness ==
    /\ returned.op = "initializeAuth"
    /\ returned.outcome = "void"
    /\ _authMethod = "static"
    /\ env.WEBEX_AUTO_REFRESH_TOKEN = "true"
    /\ env.oauth

\* C11: once initializeAuth() has selected a mode, no later step of the
\* facade (getWebexToken, reauthenticate, refreshAutoToken, logout, a refresh
\* callback, or a failure of any of them) makes the active mode another one
\* of static / auto-refresh / oauth.
C11_ModeNeverSwitches ==
    [][(initCalled /\ _authMethod # "null" /\ _authMethod' # "null")
           => _authMethod' = _authMethod]_vars

FacadeGrantOps == {"initializeAuth", "reauthenticate", "refreshAutoToken"}

C13_ReturnsManagerToken ==
    [][(/\ returned'.op = "getWebexToken"
        /\ _authMethod = "auto-refresh"
        /\ _cachedToken # NULL
        /\ _tokenExpiresAt > now)
           => /\ returned'.outcome = "token"
              /\ returned'.token = _cachedToken]_vars

\* getWebexToken() has just returned the token of a timer-driven refresh:
\* the second token issued, cached with a timer already set for it
C13_Witness ==
    /\ returned.op = "getWebexToken"
    /\ returned.outcome = "token"
    /\ _authMethod = "auto-refresh"
    /\ Len(issued) = 2
    /\ returned.token = 2
    /\ _cachedToken = 2
    /\ _tokenExpiresAt > now
    /\ now >= StartMs + 30 * 60 * 1000

----------------------------------------------------------------------------
(* Claims about the list_messages tool *)

\* a call with a parsable `after` has returned its filtered payload
ListSinceSucceeded ==
    /\ lpc = "done"
    /\ ~Falsy(args.after)
    /\ "filtered" \in DOMAIN result

\* the messages older than the call's beforeMessage, as the API pages them
Stream == [k \in 1..(Len(room) - args.beforeMessage) |-> MessageAt(args.beforeMessage + k)]

\* the position in Stream of the first message older than `after`
\* (one past the end when there is none)
FirstOlder ==
    LET old == {k \in 1..Len(Stream) : Stream[k].created < args.after.ms}
    IN  IF old = {} THEN Len(Stream) + 1
        ELSE CHOOSE k \in old : \A j \in old : k <= j

\* the batch that holds position k
BatchOf(k) == (k + batchSize - 1) \div batchSize

\* C14: a listSince call with bound T and limit M returns only items with
\* created >= T, in the order in which the API served them, none twice, and
\* never more than M of them.
C14_InRangeOrderedAtMostMax ==
    ListSinceSucceeded
        => /\ \A i \in 1..Len(result.items) :
                 /\ result.items[i].created >= args.after.ms
                 /\ \E k \in 1..Len(served) : served[k] = result.items[i]
           /\ \A i, j \in 1..Len(result.items) :
                 i < j => result.items[i].id < result.items[j].id
           /\ Len(result.items) <= args.max

MaxMetAtBatchEnd ==
    /\ TruthyNumber(args.max)
    /\ args.max = FirstOlder - 1
    /\ args.max % batchSize = 0

C16_SingleFetch ==
    (/\ lpc = "done"
     /\ _authInitialized
     /\ \/ Falsy(args.after)
        \/ args.max = 0 /\ args.after.kind = "iso")
        => fetches = 1

C18_TerminatesWithinCap ==
    /\ [](fetches <= maxIterations /\ iterations <= maxIterations)
    /\ (lpc \in {"single", "batch"}) ~> (lpc = "done")
    /\ [][(lpc = "batch" /\ iterations = maxIterations /\ served' # served)
             => /\ lpc' = "done"
                /\ DOMAIN result' = {"items", "count", "filtered", "afterFilter"}
                /\ result'.items = Limited(collectedMessages', args.max)]_vars

\* the cap ended a call with history left: maxIterations full batches, all
\* in range, returned as a success
C18_Witness ==
    /\ ListSinceSucceeded
    /\ fetches = maxIterations
    /\ Len(result.items) = maxIterations * batchSize
    /\ cursor < Len(room)

\* C19: the payload of listSince carries truncatedByMax, true exactly when
\* collected in-range items were cut by the max limit.
C19_TruncatedByMaxFlag ==
    ListSinceSucceeded
        => /\ "truncatedByMax" \in DOMAIN result
           /\ result.truncatedByMax
                = (Len(InRangePrefix(served, args.after.ms)) > Len(result.items))

\* C20: a call returns either a success payload or an {error, details}
\* value, never an exception, never both; every failure (no token when the
\* headers are built, an `after` that is no date, an error status of the
\* first or a later fetch) gives the error value, without items.
C20_ErrorsAreReturned ==
    /\ lpc = "done" =>
          /\ DOMAIN result \in {{"error", "details"}, {"items"},
                                {"items", "count", "filtered", "afterFilter"}}
          /\ ~_authInitialized => DOMAIN result = {"error", "details"}
          /\ args.after.kind = "text" => DOMAIN result = {"error", "details"}
          /\ "error" \in DOMAIN result =>
                result.error \in {"AuthNotInitialized", "NoValidToken",
                                  "InvalidTimeBound", "UpstreamHttpError"}
    /\ lpc # "done" => result = NoResult

\* a later batch failed after items had been collected: the call returned
\* the error value alone
C20_Witness ==
    /\ lpc = "done"
    /\ "error" \in DOMAIN result
    /\ result.error = "UpstreamHttpError"
    /\ fetches >= 2
    /\ collectedMessages # <<>>

----------------------------------------------------------------------------
(* Claims about concurrency and recovery *)

\* the awaits inside forceRefresh() (fetch, then storeToken's four keychain
\* commands) and inside clearCachedToken() (clearToken's two)
RefreshPcs == {"fetch", "store_del_token", "store_del_expiry",
               "store_add_token", "store_add_expiry"}
StorePcs == RefreshPcs \ {"fetch"}
ClearPcs == {"clear_del_token", "clear_del_expiry"}

\* the invocations that are inside a token-state mutation: a forceRefresh()
\* (called directly, by getValidToken() or by a timer callback) or a
\* clearCachedToken(), started and not yet finished
Mutating == {i \in Slots : tasks[i].pc \in RefreshPcs \cup ClearPcs}

\* C21: at no point are two of {a forceRefresh() execution, a
\* clearCachedToken() execution, a timer callback} in progress at the same
\* time.
C21_MutationsNeverOverlap == Cardinality(Mutating) <= 1

\* task i ends in this step
Ends(i) == tasks[i].pc # "idle" /\ tasks'[i].pc = "idle"

\* the manager after its timers gave up: the cache still holds a record that
\* has expired and no refresh timer is pending
GaveUp ==
    /\ _cachedToken # NULL
    /\ _tokenExpiresAt # NULL
    /\ _tokenExpiresAt <= now
    /\ timers = <<>>

\* task i is the only invocation in flight
Alone(i) == \A j \in Slots \ {i} : tasks[j].pc = "idle"

\* C22: a getValidToken() called after the timers gave up and the token
\* expired invokes the fetcher, and when that fetch has succeeded the call
\* leaves the manager restored: the cache holds the fetched record, it is
\* unexpired, and a refresh timer is pending.
C22_LazyRecoveryRestores ==
    [][\A i \in Slots :
        (/\ GaveUp
         /\ Alone(i)
         /\ tasks[i].op = "getValidToken"
         /\ tasks[i].stale # {}
         /\ tasks[i].fetches = 1
         /\ tasks[i].pc \in StorePcs
         /\ Ends(i))
            => /\ _cachedToken' = tasks[i].token
               /\ _tokenExpiresAt' = tasks[i].expiresAt
               /\ _tokenExpiresAt' > now'
               /\ _refreshTimeout' \in DOMAIN timers']_vars

\* C23: in a call with an `after` bound the fetches are issued one at a
\* time, each by the step that received the answer to the one before; the
\* first uses the caller's beforeMessage as cursor, every later one the id
\* of the last item of the batch just received; and no fetch follows a
\* batch that was empty or shorter than batchSize.
C23_SequentialCursorChain ==
    [][/\ fetches' \in {fetches, fetches + 1}
       /\ (fetches' # fetches) => (lpc \in {"idle", "batch"} /\ lpc' \in {"single", "batch"})
       /\ (lpc = "idle" /\ lpc' = "batch")
             => /\ fetches' = 1
                /\ cursor' = args'.beforeMessage
       /\ (lpc = "batch" /\ lpc' = "batch")
             => /\ fetches' = fetches + 1
                /\ Len(served') = Len(served) + batchSize
                /\ cursor' = served'[Len(served')].id
       /\ (lpc = "batch" /\ Len(served') < Len(served) + batchSize)
             => /\ lpc' = "done"
                /\ fetches' = fetches]_vars

\* a third fetch is in flight, behind a caller's beforeMessage and two full
\* batches
C23_Witness ==
    /\ lpc = "batch"
    /\ args.beforeMessage # NULL
    /\ fetches = 3
    /\ Len(served) = 2 * batchSize
    /\ cursor = served[Len(served)].id

\* C24: in auto-refresh mode a token getWebexToken() returns belongs to a
\* record whose expiresAt is later than the clock at the moment of return.
C24_FacadeNeverReturnsExpired ==
    (/\ returned.op = "getWebexToken"
     /\ returned.outcome = "token"
     /\ _authMethod = "auto-refresh")
        => /\ returned.token \in DOMAIN issued
           /\ issued[returned.token] > now

(* The manager driven by one caller that awaits every call before the next, *)
(* on an event loop that runs a due timer only between the calls: no two    *)
(* invocations are ever in flight together                                  *)

Quiet == \A i \in Slots : tasks[i].pc = "idle"

NextSerial ==
    \/ Quiet /\ \E i \in Slots : GetValidToken(i)
    \/ Quiet /\ \E i \in Slots : ForceRefresh(i)
    \/ Quiet /\ \E i \in Slots : ClearCachedToken(i)
    \/ Quiet /\ \E id \in DOMAIN timers, i \in Slots : FireTimer(id, i)
    \/ GetCachedToken
    \/ \E i \in Slots : LoadToken(i)
    \/ \E i \in Slots : LoadExpiry(i)
    \/ \E i \in Slots, life \in Lifetimes : FetchSucceed(i, life)
    \/ \E i \in Slots : FetchFail(i)
    \/ \E i \in Slots : StoreDeleteToken(i)
    \/ \E i \in Slots : StoreDeleteExpiry(i)
    \/ \E i \in Slots, ok \in BOOLEAN : StoreAddToken(i, ok)
    \/ \E i \in Slots, ok \in BOOLEAN : StoreAddExpiry(i, ok)
    \/ \E i \in Slots : ClearDeleteToken(i)
    \/ \E i \in Slots : ClearDeleteExpiry(i)
    \/ \E t \in TimePoints : Tick(t)

SpecSerial == Init /\ [][NextSerial]_vars

\* task i takes a step of a forceRefresh() that was called directly, and the
\* step is not the one in which the call succeeds
UnfinishedRefreshStep(i) ==
    /\ tasks[i].op = "forceRefresh"
    /\ tasks[i].origin = "direct"
    /\ tasks'[i] # tasks[i]
    /\ ~(Ends(i) /\ returned'.outcome = "token")

\* C25: a forceRefresh() that fails, in the fetcher or in the store, leaves
\* the in-memory record, the refresh timer and the persisted record (as a
\* load returns it) as they were before the call, and does not invoke the
\* refresh callback.
C25_FailedRefreshChangesNothing ==
    [][\A i \in Slots :
        UnfinishedRefreshStep(i)
            => /\ UNCHANGED <<_cachedToken, _tokenExpiresAt, _refreshTimeout, timers,
                              config_cachedToken>>
               /\ Ends(i) => LoadedRecord(keychain') = tasks[i].stored]_vars

====
